---- MODULE Spec2Model ----
(***************************************************************************)
(* Model of the per-aircraft track of src/src/lib.rs (struct Ac): its      *)
(* construction (Ac::new), its update (Ac::update), the classification     *)
(* predicates (is_fast_mover, is_potential_toi) and the ground-status      *)
(* rule (aircraft_is_on_ground).                                           *)
(*                                                                         *)
(* Units.  Timestamps (DateTime<Utc>) and durations are whole seconds.     *)
(* Ground speeds (f64 knots) are integers in hundredths of a knot, so that *)
(* 80.01 kt is 8001; all speeds are finite (they are decoded from JSON).   *)
(* Altitudes (i32 feet) are integers.  Option<T> is a sequence of length   *)
(* 0 (None) or 1 (Some).                                                   *)
(***************************************************************************)
EXTENDS Integers, Sequences, FiniteSets

VARIABLES
    ac,         \* Option<Ac>: the track of the aircraft, None before a successful Ac::new
    clock,      \* the observation time `now` of the latest call
    panicked,   \* TRUE once an unwrap() in Ac::update has panicked
    result,     \* Option<Result<Ac, Error>>: what the latest Ac::new returned
    last,       \* history variable: the latest call, [op, now, aircraft]
    inserted,   \* history variable: every (timestamp, position) entry put into coords, in order
    observed,   \* history variable: every ground speed a call has read into the track
    fast_at,    \* history variable: Option of the observation time of the latest fast snapshot
    fast_run,   \* history variable: length of the current run of fast observations
    steps       \* history variable: number of calls made

VARIABLES
    decodes,            \* per path, whether load_adsbx_json_file returns Ok
    skip_json_errors,   \* the flag given to for_each_adsbx_json
    next_in,            \* index of the next path handed to a worker
    working,            \* indices of the paths being decoded on workers
    ready,              \* indices of the results decoded and not yet consumed
    next_out,           \* index of the result for_each consumes next
    pc,                 \* the consuming thread: "next", "op", "done" or "exited"
    in_op,              \* indices of the responses whose callback is running
    delivered           \* history variable: indices handed to the callback, in order

VARIABLES
    table,      \* the tracks held by the caller, by position in the table
    tick_now,   \* the time of the latest processing tick
    emitted     \* the Interception records of the latest tick, in order

trackVars == <<ac, clock, panicked, result, last, inserted, observed, fast_at, fast_run, steps>>

ingestVars == <<decodes, skip_json_errors, next_in, working, ready, next_out, pc, in_op, delivered>>

matchVars == <<table, tick_now, emitted>>

vars == <<trackVars, ingestVars, matchVars>>

----------------------------------------------------------------------------
(* Option<T> *)

None == <<>>

Some(x) == <<x>>

IsSome(o) == o # None

Unwrap(o) == o[1]

(* adsbx_json::v2::AltitudeOrGround, with the derived PartialEq *)

OnGround == [tag |-> "OnGround", alt |-> 0]

Altitude(a) == [tag |-> "Altitude", alt |-> a]

(* f64 knots as hundredths of a knot *)

Kts(k) == k * 100

----------------------------------------------------------------------------
(* Program constants *)

INTERCEPTOR_MIN_SPEED_KTS == Kts(350)

TARGET_MAX_SPEED_KTS == Kts(250)

TARGET_MIN_SPEED_KTS == Kts(80)

INTERCEPTOR_TIMEOUT_MINS == 3

FastCountLatch == 10

MaxCoords == 40

GroundAltFt == 500

----------------------------------------------------------------------------
(* Pure functions *)

\* faulty variant: a numeric barometric altitude is turned into 0 as well
alt_number_AlwaysZero(alt) ==
    IF alt = OnGround THEN 0 ELSE 0

alt_number(alt) ==
    IF alt = OnGround THEN 0 ELSE alt.alt

\* faulty variant: an altitude of exactly 500 ft counts as on the ground
aircraft_is_on_ground_Inclusive(aircraft) ==
    \/ /\ IsSome(aircraft.barometric_altitude)
       /\ Unwrap(aircraft.barometric_altitude) = OnGround
    \/ /\ IsSome(aircraft.geometric_altitude)
       /\ Unwrap(aircraft.geometric_altitude) <= GroundAltFt

aircraft_is_on_ground(aircraft) ==
    \/ /\ IsSome(aircraft.barometric_altitude)
       /\ Unwrap(aircraft.barometric_altitude) = OnGround
    \/ /\ IsSome(aircraft.geometric_altitude)
       /\ Unwrap(aircraft.geometric_altitude) < GroundAltFt

MissingData(hex, what) ==
    [kind |-> "AircraftMissingData", hex |-> hex, missing |-> what]

Ok(v) == [ok |-> TRUE, val |-> v]

Err(e) == [ok |-> FALSE, err |-> e]

\* the Ok(Ac { .. }) of Ac::new, once every required field is at hand
NewAc(now, aircraft, lon, lat, spd, alt, seen_pos) ==
    LET is_fast == spd > INTERCEPTOR_MIN_SPEED_KTS
    IN  [hex |-> aircraft.hex,
         coords |-> << <<now, <<lon, lat>> >> >>,
         max_speed |-> spd,
         cur_speed |-> spd,
         cur_alt |-> alt,
         is_on_ground |-> aircraft_is_on_ground(aircraft),
         time_seen_fast |-> IF is_fast THEN Some(now - seen_pos) ELSE None,
         fast_count |-> IF is_fast THEN 1 ELSE 0,
         seen |-> now - Unwrap(aircraft.seen_pos)]

\* faulty variant: a missing geometric altitude falls back to 0, as in update, instead of failing
AcNew_AltFallback(now, aircraft) ==
    IF ~(IsSome(aircraft.lon) /\ IsSome(aircraft.lat))
    THEN Err(MissingData(aircraft.hex, "position data"))
    ELSE IF ~IsSome(aircraft.ground_speed_knots)
    THEN Err(MissingData(aircraft.hex, "ground speed data"))
    ELSE IF ~IsSome(aircraft.seen_pos)
    THEN Err(MissingData(aircraft.hex, "seen_pos"))
    ELSE Ok(NewAc(now, aircraft,
                  Unwrap(aircraft.lon), Unwrap(aircraft.lat),
                  Unwrap(aircraft.ground_speed_knots),
                  IF IsSome(aircraft.geometric_altitude)
                  THEN Unwrap(aircraft.geometric_altitude) ELSE 0,
                  Unwrap(aircraft.seen_pos)))

AcNew(now, aircraft) ==
    IF ~(IsSome(aircraft.lon) /\ IsSome(aircraft.lat))
    THEN Err(MissingData(aircraft.hex, "position data"))
    ELSE IF ~IsSome(aircraft.ground_speed_knots)
    THEN Err(MissingData(aircraft.hex, "ground speed data"))
    ELSE IF ~IsSome(aircraft.geometric_altitude)
    THEN Err(MissingData(aircraft.hex, "geometric altitude"))
    ELSE IF ~IsSome(aircraft.seen_pos)
    THEN Err(MissingData(aircraft.hex, "seen_pos"))
    ELSE Ok(NewAc(now, aircraft,
                  Unwrap(aircraft.lon), Unwrap(aircraft.lat),
                  Unwrap(aircraft.ground_speed_knots),
                  Unwrap(aircraft.geometric_altitude),
                  Unwrap(aircraft.seen_pos)))

(* Ac::update, statement by statement *)

\* faulty variant: time_seen_fast is set for every reported speed, not only a fast one
UpdateSpeed_StampAlways(self, now, aircraft) ==
    IF IsSome(aircraft.ground_speed_knots)
    THEN LET spd == Unwrap(aircraft.ground_speed_knots)
             s1 == [self EXCEPT !.cur_speed = spd,
                                !.max_speed = IF spd > self.max_speed THEN spd ELSE self.max_speed,
                                !.time_seen_fast = Some(now)]
         IN  IF s1.cur_speed > INTERCEPTOR_MIN_SPEED_KTS
             THEN [s1 EXCEPT !.fast_count = self.fast_count + 1]
             ELSE s1
    ELSE self

\* faulty variant: max_speed follows the latest speed instead of the maximum
UpdateSpeed_NoMax(self, now, aircraft) ==
    IF IsSome(aircraft.ground_speed_knots)
    THEN LET spd == Unwrap(aircraft.ground_speed_knots)
             s1 == [self EXCEPT !.cur_speed = spd, !.max_speed = spd]
         IN  IF s1.cur_speed > INTERCEPTOR_MIN_SPEED_KTS
             THEN [s1 EXCEPT !.time_seen_fast = Some(now),
                             !.fast_count = self.fast_count + 1]
             ELSE s1
    ELSE self

\* faulty variant: a speed of exactly the threshold counts as fast
UpdateSpeed_Inclusive(self, now, aircraft) ==
    IF IsSome(aircraft.ground_speed_knots)
    THEN LET spd == Unwrap(aircraft.ground_speed_knots)
             s1 == [self EXCEPT !.cur_speed = spd,
                                !.max_speed = IF spd > self.max_speed THEN spd ELSE self.max_speed]
         IN  IF s1.cur_speed >= INTERCEPTOR_MIN_SPEED_KTS
             THEN [s1 EXCEPT !.time_seen_fast = Some(now),
                             !.fast_count = self.fast_count + 1]
             ELSE s1
    ELSE self

UpdateSpeed(self, now, aircraft) ==
    IF IsSome(aircraft.ground_speed_knots)
    THEN LET spd == Unwrap(aircraft.ground_speed_knots)
             s1 == [self EXCEPT !.cur_speed = spd,
                                !.max_speed = IF spd > self.max_speed THEN spd ELSE self.max_speed]
         IN  IF s1.cur_speed > INTERCEPTOR_MIN_SPEED_KTS
             THEN [s1 EXCEPT !.time_seen_fast = Some(now),
                             !.fast_count = self.fast_count + 1]
             ELSE s1
    ELSE self

\* faulty variant: the barometric altitude is preferred to the geometric one
UpdateAlt_BaroFirst(aircraft) ==
    IF IsSome(aircraft.barometric_altitude)
    THEN alt_number(Unwrap(aircraft.barometric_altitude))
    ELSE IF IsSome(aircraft.geometric_altitude)
         THEN Unwrap(aircraft.geometric_altitude)
         ELSE 0

UpdateAlt(aircraft) ==
    IF IsSome(aircraft.geometric_altitude)
    THEN Unwrap(aircraft.geometric_altitude)
    ELSE IF IsSome(aircraft.barometric_altitude)
         THEN alt_number(Unwrap(aircraft.barometric_altitude))
         ELSE 0

\* faulty variant: over capacity, the newest entry is dropped instead of the oldest
PushCoords_DropNewest(coords, entry) ==
    LET pushed == Append(coords, entry)
    IN  IF Len(pushed) > MaxCoords THEN SubSeq(pushed, 1, MaxCoords) ELSE pushed

PushCoords(coords, entry) ==
    LET pushed == Append(coords, entry)
    IN  IF Len(pushed) > MaxCoords THEN Tail(pushed) ELSE pushed

\* The fields as they stand when update returns, or when the unwrap() of a
\* missing longitude or latitude panics (after seen is set, before the push).
AcUpdate(self, now, aircraft) ==
    LET s1 == UpdateSpeed(self, now, aircraft)
        s2 == [s1 EXCEPT !.cur_alt = UpdateAlt(aircraft),
                         !.is_on_ground = aircraft_is_on_ground(aircraft),
                         !.seen = now]
    IN  IF IsSome(aircraft.lon) /\ IsSome(aircraft.lat)
        THEN [panicked |-> FALSE,
              ac |-> [s2 EXCEPT !.coords =
                         PushCoords(s2.coords,
                                    <<now, <<Unwrap(aircraft.lon), Unwrap(aircraft.lat)>> >>)]]
        ELSE [panicked |-> TRUE, ac |-> s2]

\* faulty variant: the first entry of the history
cur_coords_Oldest(self) == Head(self.coords)

cur_coords(self) == self.coords[Len(self.coords)]

oldest_coords(self) == Head(self.coords)

\* chrono::Duration::num_minutes: whole minutes, truncated toward zero
num_minutes(secs) ==
    IF secs >= 0 THEN secs \div 60 ELSE -((-secs) \div 60)

\* faulty variant: the elapsed time is taken from now to time_seen_fast
is_fast_mover_Reversed(self, now) ==
    IF IsSome(self.time_seen_fast)
    THEN LET elapsed == Unwrap(self.time_seen_fast) - now
         IN  /\ num_minutes(elapsed) < INTERCEPTOR_TIMEOUT_MINS
             /\ self.fast_count > FastCountLatch
             /\ ~self.is_on_ground
    ELSE FALSE

\* faulty variant: the grace window includes the whole third minute
is_fast_mover_LateTimeout(self, now) ==
    IF IsSome(self.time_seen_fast)
    THEN LET elapsed == now - Unwrap(self.time_seen_fast)
         IN  /\ num_minutes(elapsed) <= INTERCEPTOR_TIMEOUT_MINS
             /\ self.fast_count > FastCountLatch
             /\ ~self.is_on_ground
    ELSE FALSE

\* faulty variant: ten fast observations are enough
is_fast_mover_AtLeast(self, now) ==
    IF IsSome(self.time_seen_fast)
    THEN LET elapsed == now - Unwrap(self.time_seen_fast)
         IN  /\ num_minutes(elapsed) < INTERCEPTOR_TIMEOUT_MINS
             /\ self.fast_count >= FastCountLatch
             /\ ~self.is_on_ground
    ELSE FALSE

is_fast_mover(self, now) ==
    IF IsSome(self.time_seen_fast)
    THEN LET elapsed == now - Unwrap(self.time_seen_fast)
         IN  /\ num_minutes(elapsed) < INTERCEPTOR_TIMEOUT_MINS
             /\ self.fast_count > FastCountLatch
             /\ ~self.is_on_ground
    ELSE FALSE

\* faulty variant: the target band has no upper edge
is_potential_toi_NoMax(self) ==
    /\ self.cur_speed > TARGET_MIN_SPEED_KTS
    /\ ~self.is_on_ground

\* faulty variant: the lower edge of the target band is inclusive
is_potential_toi_Inclusive(self) ==
    /\ self.cur_speed >= TARGET_MIN_SPEED_KTS
    /\ self.cur_speed < TARGET_MAX_SPEED_KTS
    /\ ~self.is_on_ground

is_potential_toi(self) ==
    /\ self.cur_speed > TARGET_MIN_SPEED_KTS
    /\ self.cur_speed < TARGET_MAX_SPEED_KTS
    /\ ~self.is_on_ground

----------------------------------------------------------------------------
(* Inputs: the Aircraft snapshots the decoder hands over *)

Aircraft(hex, lon, lat, spd, geom, baro, seen_pos, seen) ==
    [hex |-> hex, lon |-> lon, lat |-> lat, ground_speed_knots |-> spd,
     geometric_altitude |-> geom, barometric_altitude |-> baro,
     seen_pos |-> seen_pos, seen |-> seen]

Hex == "a1b2c3"

SpeedValues == {Kts(80), Kts(80) + 1, Kts(250), Kts(350), Kts(350) + 1}

GeomValues == {GroundAltFt - 1, GroundAltFt, GroundAltFt + 1}

BaroValues == {None, Some(OnGround), Some(Altitude(600))}

Opt(S) == {None} \cup {Some(x) : x \in S}

\* every speed around the band edges (and none), airborne, all else present
SpeedCases ==
    {Aircraft(Hex, Some(10), Some(20), spd, Some(10000), None, Some(5), 2) :
        spd \in Opt(SpeedValues)}

\* every combination of geometric and barometric altitude, at a target-band speed
AltCases ==
    {Aircraft(Hex, Some(10), Some(20), Some(Kts(200)), geom, baro, Some(5), 2) :
        geom \in Opt(GeomValues), baro \in BaroValues}

\* every pattern of absent speed, geometric altitude and seen_pos, position present
MissingCases ==
    {Aircraft(Hex, Some(10), Some(20), spd, geom, None, seen_pos, 2) :
        spd \in Opt({Kts(400)}), geom \in Opt({10000}), seen_pos \in Opt({5})}

\* every pattern of absent longitude and latitude, all else present or all else absent
NoPositionCases ==
    {Aircraft(Hex, lon, lat, Some(Kts(400)), Some(10000), None, Some(5), 2) :
        lon \in Opt({10}), lat \in Opt({20})}
    \cup {Aircraft(Hex, None, None, None, None, None, None, 2)}

\* a second aircraft, complete or without its ground speed
OtherCases ==
    {Aircraft("d4e5f6", Some(11), Some(21), spd, Some(10000), None, Some(7), 3) :
        spd \in Opt({Kts(100)})}

Snapshots == SpeedCases \cup AltCases \cup MissingCases
             \cup NoPositionCases \cup OtherCases

Steps == {0, 60}

----------------------------------------------------------------------------
(* The state machine: the caller holds at most one track for the aircraft, *)
(* creates it from the first snapshot Ac::new accepts and updates it with  *)
(* every later one; observation times do not go back.                      *)

NoCall == [op |-> "none", now |-> 0, aircraft |-> Aircraft(Hex, None, None, None, None, None, None, 2)]

\* no call of for_each_adsbx_json is under way
IngestIdle ==
    /\ decodes = <<>>
    /\ skip_json_errors = FALSE
    /\ next_in = 1
    /\ working = {}
    /\ ready = {}
    /\ next_out = 1
    /\ pc = "done"
    /\ in_op = {}
    /\ delivered = <<>>

\* no tick has been processed
MatchIdle ==
    /\ table = <<>>
    /\ tick_now = 0
    /\ emitted = <<>>

TrackInit ==
    /\ ac = None
    /\ clock = 0
    /\ panicked = FALSE
    /\ result = None
    /\ last = NoCall
    /\ inserted = <<>>
    /\ observed = {}
    /\ fast_at = None
    /\ fast_run = 0
    /\ steps = 0

Init == TrackInit /\ IngestIdle /\ MatchIdle

Create(aircraft, dt) ==
    /\ ~panicked
    /\ ac = None
    /\ LET now == clock + dt
           r == AcNew(now, aircraft)
       IN  /\ clock' = now
           /\ result' = Some(r)
           /\ ac' = IF r.ok THEN Some(r.val) ELSE None
           /\ inserted' = IF r.ok THEN r.val.coords ELSE inserted
           /\ observed' = IF r.ok THEN {Unwrap(aircraft.ground_speed_knots)} ELSE observed
           /\ fast_at' = IF r.ok /\ r.val.cur_speed > INTERCEPTOR_MIN_SPEED_KTS
                         THEN Some(now) ELSE fast_at
           /\ fast_run' = IF ~r.ok THEN fast_run
                          ELSE IF r.val.cur_speed > INTERCEPTOR_MIN_SPEED_KTS THEN 1 ELSE 0
           /\ last' = [op |-> "new", now |-> now, aircraft |-> aircraft]
    /\ steps' = steps + 1
    /\ UNCHANGED <<panicked, ingestVars, matchVars>>

Update(aircraft, dt) ==
    /\ ~panicked
    /\ ac # None
    /\ LET now == clock + dt
           r == AcUpdate(Unwrap(ac), now, aircraft)
       IN  /\ clock' = now
           /\ ac' = Some(r.ac)
           /\ panicked' = r.panicked
           /\ inserted' = IF r.panicked THEN inserted
                          ELSE Append(inserted,
                                      <<now, <<Unwrap(aircraft.lon), Unwrap(aircraft.lat)>> >>)
           /\ observed' = IF IsSome(aircraft.ground_speed_knots)
                          THEN observed \cup {Unwrap(aircraft.ground_speed_knots)}
                          ELSE observed
           /\ fast_at' = IF /\ IsSome(aircraft.ground_speed_knots)
                            /\ Unwrap(aircraft.ground_speed_knots) > INTERCEPTOR_MIN_SPEED_KTS
                         THEN Some(now) ELSE fast_at
           /\ fast_run' = IF ~IsSome(aircraft.ground_speed_knots) THEN fast_run
                          ELSE IF Unwrap(aircraft.ground_speed_knots) > INTERCEPTOR_MIN_SPEED_KTS
                               THEN fast_run + 1 ELSE 0
           /\ last' = [op |-> "update", now |-> now, aircraft |-> aircraft]
    /\ steps' = steps + 1
    /\ UNCHANGED <<result, ingestVars, matchVars>>

MaxSteps == 3

CreateStep ==
    \E aircraft \in Snapshots, dt \in Steps :
        steps < MaxSteps /\ Create(aircraft, dt)

UpdateStep ==
    \E aircraft \in Snapshots, dt \in Steps :
        steps < MaxSteps /\ Update(aircraft, dt)

Next == CreateStep \/ UpdateStep

Spec == Init /\ [][Next]_vars

----------------------------------------------------------------------------
(* The same machine over a long run of a few snapshots: an aircraft that   *)
(* is fast, in the target band or silent on speed while airborne, or in    *)
(* the target band on the ground, observed at a fixed interval.            *)

LatchSnapshots ==
    {Aircraft(Hex, Some(10), Some(20), spd, Some(10000), None, Some(5), 2) :
        spd \in Opt({Kts(200), Kts(400)})}
    \cup {Aircraft(Hex, Some(10), Some(20), Some(Kts(200)), Some(0), Some(OnGround), Some(5), 2)}

StepSecs == 60

LatchSteps == {StepSecs}

MaxLatchSteps == 14

LatchGuard(dt) == steps < MaxLatchSteps

LatchCreateStep ==
    \E aircraft \in LatchSnapshots, dt \in LatchSteps :
        LatchGuard(dt) /\ Create(aircraft, dt)

LatchUpdateStep ==
    \E aircraft \in LatchSnapshots, dt \in LatchSteps :
        LatchGuard(dt) /\ Update(aircraft, dt)

LatchNext == LatchCreateStep \/ LatchUpdateStep

SpecLatch == Init /\ [][LatchNext]_vars

----------------------------------------------------------------------------
(* The same machine over a run longer than the capacity of coords: one     *)
(* airborne aircraft, with or without its longitude, observed at a fixed   *)
(* interval of which a bounded number are missed.                          *)

HistSnapshots ==
    {Aircraft(Hex, lon, Some(20), Some(Kts(200)), Some(10000), None, Some(5), 2) :
        lon \in Opt({10})}

HistSteps == {StepSecs, 2 * StepSecs}

MaxHistSteps == 43

MaxHistSlack == 1

HistGuard(dt) ==
    /\ steps < MaxHistSteps
    /\ clock + dt <= StepSecs * (steps + 1 + MaxHistSlack)

HistCreateStep ==
    \E aircraft \in HistSnapshots, dt \in HistSteps :
        HistGuard(dt) /\ Create(aircraft, dt)

HistUpdateStep ==
    \E aircraft \in HistSnapshots, dt \in HistSteps :
        HistGuard(dt) /\ Update(aircraft, dt)

HistNext == HistCreateStep \/ HistUpdateStep

SpecHist == Init /\ [][HistNext]_vars

----------------------------------------------------------------------------
(* for_each_adsbx_json: the paths are decoded on worker threads            *)
(* (parallel_map_scoped hands them out in input order and yields the       *)
(* results in input order); the consuming thread runs the for_each closure *)
(* on one result at a time, calling op on it or reporting its error.       *)

NumPaths == 3

NumThreads == 2

PathIndices == 1..NumPaths

IngestInit ==
    /\ TrackInit
    /\ MatchIdle
    /\ decodes \in [PathIndices -> BOOLEAN]
    /\ skip_json_errors \in BOOLEAN
    /\ next_in = 1
    /\ working = {}
    /\ ready = {}
    /\ next_out = 1
    /\ pc = "next"
    /\ in_op = {}
    /\ delivered = <<>>

\* faulty variant: results are consumed as they complete, in any order
Consumable_AsCompleted(i) == i \in ready

\* the result the iterator yields next: the next one in input order, once decoded
Consumable(i) == i = next_out /\ i \in ready

\* faulty variant: the flag is read the wrong way round
ExitsOnError_Inverted == skip_json_errors

ExitsOnError == ~skip_json_errors

\* a worker takes the next path
Dispatch ==
    /\ pc \in {"next", "op"}
    /\ next_in \in PathIndices
    /\ Cardinality(working) < NumThreads
    /\ working' = working \cup {next_in}
    /\ next_in' = next_in + 1
    /\ UNCHANGED <<decodes, skip_json_errors, ready, next_out, pc, in_op, delivered, trackVars, matchVars>>

\* a worker finishes load_adsbx_json_file on its path
DecodeDone ==
    /\ pc \in {"next", "op"}
    /\ \E i \in working :
          /\ working' = working \ {i}
          /\ ready' = ready \cup {i}
    /\ UNCHANGED <<decodes, skip_json_errors, next_in, next_out, pc, in_op, delivered, trackVars, matchVars>>

\* the closure gets Ok(response) and calls op(response)
CallOp ==
    /\ pc = "next"
    /\ \E i \in PathIndices :
          /\ Consumable(i)
          /\ decodes[i]
          /\ ready' = ready \ {i}
          /\ in_op' = in_op \cup {i}
          /\ delivered' = Append(delivered, i)
    /\ pc' = "op"
    /\ UNCHANGED <<decodes, skip_json_errors, next_in, working, next_out, trackVars, matchVars>>

\* op returns, the closure moves the progress bar and returns
OpReturn ==
    /\ pc = "op"
    /\ in_op' = {}
    /\ next_out' = next_out + 1
    /\ pc' = "next"
    /\ UNCHANGED <<decodes, skip_json_errors, next_in, working, ready, delivered, trackVars, matchVars>>

\* the closure gets Err((path, err)): it reports it, then exits the process or goes on
ReportError ==
    /\ pc = "next"
    /\ \E i \in PathIndices :
          /\ Consumable(i)
          /\ ~decodes[i]
          /\ ready' = ready \ {i}
    /\ IF ExitsOnError
       THEN pc' = "exited" /\ UNCHANGED next_out
       ELSE pc' = "next" /\ next_out' = next_out + 1
    /\ UNCHANGED <<decodes, skip_json_errors, next_in, working, in_op, delivered, trackVars, matchVars>>

\* every result has been consumed: for_each_adsbx_json returns Ok(())
Finish ==
    /\ pc = "next"
    /\ next_out > NumPaths
    /\ pc' = "done"
    /\ UNCHANGED <<decodes, skip_json_errors, next_in, working, ready, next_out, in_op, delivered, trackVars, matchVars>>

IngestNext ==
    \/ Dispatch
    \/ DecodeDone
    \/ CallOp
    \/ OpReturn
    \/ ReportError
    \/ Finish

SpecIngest == IngestInit /\ [][IngestNext]_vars

----------------------------------------------------------------------------
(* Proximity matching, run once per processing tick over the track table.  *)
(* The crate declares the types (Class, TargetLocation, Interception); the *)
(* matching itself follows section 4.4 of the specification.               *)

\* truncated integer square root
Isqrt(n) == CHOOSE r \in 0..n : r * r <= n /\ n < (r + 1) * (r + 1)

Abs(x) == IF x < 0 THEN -x ELSE x

\* the lateral distance threshold, in grid units
MatchRange == 2

\* Class: a track is one of Interceptor, Target, Other
Classify(self, now) ==
    IF is_fast_mover(self, now) THEN "Interceptor"
    ELSE IF is_potential_toi(self) THEN "Target"
    ELSE "Other"

\* the point a track is indexed and queried at
cur_position(self) == cur_coords(self)[2]

\* squared planar distance between two points
Dist2(p, q) == (p[1] - q[1]) * (p[1] - q[1]) + (p[2] - q[2]) * (p[2] - q[2])

MatchHexes == <<"a1b2c3", "d4e5f6", "0a0b0c">>

HexRank(h) == CHOOSE k \in 1..Len(MatchHexes) : MatchHexes[k] = h

\* the Interception record of one pair
Interception(interceptor, target, now) ==
    [interceptor |-> interceptor,
     target |-> target,
     time |-> now,
     lateral_separation_ft |-> Isqrt(Dist2(cur_position(interceptor), cur_position(target))),
     vertical_separation_ft |-> Abs(interceptor.cur_alt - target.cur_alt)]

\* the index entries within range of a point: the hexes of the target tracks
WithinRange(tbl, now, p) ==
    {h \in DOMAIN tbl :
        /\ Classify(tbl[h], now) = "Target"
        /\ Dist2(p, cur_position(tbl[h])) <= MatchRange * MatchRange}

RECURSIVE NearestFirst(_, _, _)
\* the hexes of S, nearest to p first, ties by identifier
NearestFirst(tbl, p, S) ==
    IF S = {} THEN <<>>
    ELSE LET d(h) == Dist2(p, cur_position(tbl[h]))
             t == CHOOSE h \in S : \A u \in S :
                      \/ d(h) < d(u)
                      \/ d(h) = d(u) /\ HexRank(h) <= HexRank(u)
         IN  <<t>> \o NearestFirst(tbl, p, S \ {t})

\* the records one interceptor produces
QueryIndex(tbl, now, i) ==
    LET near == NearestFirst(tbl, cur_position(tbl[i]), WithinRange(tbl, now, cur_position(tbl[i])))
    IN  [k \in 1..Len(near) |-> Interception(tbl[i], tbl[near[k]], now)]

RECURSIVE MatchFrom(_, _, _)
MatchFrom(tbl, now, k) ==
    IF k > Len(MatchHexes) THEN <<>>
    ELSE (IF MatchHexes[k] \in DOMAIN tbl /\ Classify(tbl[MatchHexes[k]], now) = "Interceptor"
          THEN QueryIndex(tbl, now, MatchHexes[k])
          ELSE <<>>)
         \o MatchFrom(tbl, now, k + 1)

\* the records of one tick
Matcher(tbl, now) == MatchFrom(tbl, now, 1)

\* a complete snapshot of aircraft h at longitude lon; each aircraft keeps its own
\* latitude and altitude
MatchSnap(h, lon, spd, baro) ==
    Aircraft(h, Some(lon), Some(HexRank(h) - 1), Some(spd),
             Some(IF baro = None THEN 9000 + 1000 * HexRank(h) ELSE 0), baro, Some(5), 2)

MatchStart == FastCountLatch * StepSecs

RECURSIVE Flown(_, _, _)
\* the track after k more fast updates, one step apart, one unit of longitude each
Flown(self, now, k) ==
    IF k = 0 THEN self
    ELSE Flown(AcUpdate(self, now + StepSecs,
                        MatchSnap(self.hex, cur_position(self)[1] + 1, Kts(400), None)).ac,
               now + StepSecs, k - 1)

\* a track created fast and updated fast n times, arriving at longitude 0 at MatchStart
Fighter(h, n) ==
    Flown(AcNew(MatchStart - n * StepSecs, MatchSnap(h, -n, Kts(400), None)).val,
          MatchStart - n * StepSecs, n)

\* a track created at MatchStart in the target band
Cruiser(h, lon) == AcNew(MatchStart, MatchSnap(h, lon, Kts(200), None)).val

\* a track created at MatchStart on the ground
Parked(h, lon) == AcNew(MatchStart, MatchSnap(h, lon, Kts(200), Some(OnGround))).val

\* the tables the run starts from: one track per aircraft
StartTracks ==
    {[h \in {MatchHexes[k] : k \in 1..Len(MatchHexes)} |->
          IF h = MatchHexes[1] THEN a ELSE IF h = MatchHexes[2] THEN b ELSE c] :
        a \in {Fighter(MatchHexes[1], FastCountLatch - 1), Fighter(MatchHexes[1], FastCountLatch)},
        b \in {Fighter(MatchHexes[2], FastCountLatch), Cruiser(MatchHexes[2], 1)},
        c \in {Cruiser(MatchHexes[3], 0), Parked(MatchHexes[3], 0)}}

\* the snapshots a batch may carry for aircraft h
TickSnaps(h) ==
    {MatchSnap(h, 0, Kts(400), None), MatchSnap(h, 0, Kts(200), None),
     MatchSnap(h, 1, Kts(200), None), MatchSnap(h, 5, Kts(200), None),
     MatchSnap(h, 1, Kts(200), Some(OnGround))}

MaxTicks == 3

MatchInit ==
    /\ TrackInit
    /\ IngestIdle
    /\ table \in StartTracks
    /\ tick_now = MatchStart
    /\ emitted = Matcher(table, tick_now)

\* a batch with one aircraft of the table: its track is updated, then the matcher runs
TickUpdate ==
    /\ tick_now < MatchStart + MaxTicks * StepSecs
    /\ \E h \in DOMAIN table : \E aircraft \in TickSnaps(h) :
          /\ tick_now' = tick_now + StepSecs
          /\ table' = [table EXCEPT ![h] = AcUpdate(table[h], tick_now', aircraft).ac]
          /\ emitted' = Matcher(table', tick_now')
    /\ UNCHANGED <<trackVars, ingestVars>>

\* a batch with none of the table's aircraft: only the time moves, then the matcher runs
TickQuiet ==
    /\ tick_now < MatchStart + MaxTicks * StepSecs
    /\ \E dt \in {StepSecs, INTERCEPTOR_TIMEOUT_MINS * StepSecs} :
          tick_now' = tick_now + dt
    /\ emitted' = Matcher(table, tick_now')
    /\ UNCHANGED <<table, trackVars, ingestVars>>

MatchNext ==
    \/ TickUpdate
    \/ TickQuiet

SpecMatch == MatchInit /\ [][MatchNext]_vars

\* the times at which the classification predicates are asked
QueryTimes == (clock - 61)..(clock + 241)

----------------------------------------------------------------------------
(* Properties *)

\* the track, where there is one
Track == Unwrap(ac)

SetMax(S) == CHOOSE x \in S : \A y \in S : y <= x

\* C1: after creation and any number of updates carrying a position, coords
\* holds between 1 and 40 entries, and they are the most recently inserted
\* (timestamp, position) entries (all of them up to 40, the last 40 beyond),
\* in insertion order.
C1_HistoryIsLast40 ==
    IsSome(ac) =>
        LET h == Track.coords
            n == Len(inserted)
        IN  /\ Len(h) >= 1
            /\ Len(h) <= 40
            /\ Len(h) = IF n > 40 THEN 40 ELSE n
            /\ \A i \in 1..Len(h) : h[i] = inserted[n - Len(h) + i]
            /\ cur_coords(Track) = inserted[n]
            /\ oldest_coords(Track) = inserted[IF n > 40 THEN n - 39 ELSE 1]

C1_Witness ==
    /\ IsSome(ac)
    /\ Len(inserted) = 43
    /\ Len(Track.coords) = 40
    /\ oldest_coords(Track) = inserted[4]
    /\ cur_coords(Track)[1] > oldest_coords(Track)[1] + 39 * StepSecs

\* C2 as stated: in every track state and at every query time,
\* is_fast_mover(now) and is_potential_toi() are not both true.
C2_NeverBoth ==
    IsSome(ac) =>
        \A now \in QueryTimes :
            ~(is_fast_mover(Track, now) /\ is_potential_toi(Track))

\* C2 as amended: while the current speed is above 350 kt, is_fast_mover(now)
\* and is_potential_toi() are not both true at any query time; a track that
\* is both has slowed to at most 350 kt inside the grace window.
C2_NeverBothWhileFast ==
    IsSome(ac) =>
        \A now \in QueryTimes :
            (is_fast_mover(Track, now) /\ is_potential_toi(Track))
                => /\ Track.cur_speed <= Kts(350)
                   /\ now - Unwrap(fast_at) < 3 * 60

C2_Witness ==
    /\ IsSome(ac)
    /\ last.op = "update"
    /\ Track.cur_speed > Kts(350)
    /\ is_fast_mover(Track, clock)
    /\ ~is_potential_toi(Track)

\* C3 as stated: for a track with fast_count > 10, whatever slow updates
\* came since, is_fast_mover(now) is true at every query time less than 3
\* minutes after the most recent fast observation and false from 3 minutes on.
C3_LatchHoldsForWindow ==
    (IsSome(ac) /\ Track.fast_count > 10) =>
        \A now \in QueryTimes :
            now >= Unwrap(fast_at) =>
                (is_fast_mover(Track, now) <=> now - Unwrap(fast_at) < 3 * 60)

\* C3 as amended: for a track with fast_count > 10, is_fast_mover(now) is
\* true at every query time less than 3 minutes after the most recent fast
\* observation provided the latest snapshot left the track off the ground,
\* and false from 3 minutes on and whenever the track is on the ground.
C3_LatchHoldsWhileAirborne ==
    (IsSome(ac) /\ Track.fast_count > 10) =>
        \A now \in QueryTimes :
            now >= Unwrap(fast_at) =>
                (is_fast_mover(Track, now)
                    <=> (now - Unwrap(fast_at) < 3 * 60 /\ ~Track.is_on_ground))

C3_Witness ==
    /\ IsSome(ac)
    /\ Track.fast_count > 10
    /\ last.op = "update"
    /\ Track.cur_speed <= Kts(350)
    /\ clock = Unwrap(fast_at) + 2 * StepSecs
    /\ is_fast_mover(Track, clock)
    /\ ~is_fast_mover(Track, Unwrap(fast_at) + 3 * 60)

\* C4: whenever a track exists (after creation and after every update),
\* fast_count > 0 holds exactly when time_seen_fast is present.
C4_FastCountIffSeenFast ==
    IsSome(ac) => (Track.fast_count > 0 <=> IsSome(Track.time_seen_fast))

C4_Witness ==
    /\ IsSome(ac)
    /\ last.op = "update"
    /\ Track.fast_count = 2
    /\ Track.cur_speed <= Kts(350)

\* C5: after creation and after every update, max_speed is the maximum of
\* all ground speeds observed so far; so it is at least cur_speed and no
\* update lowers it.
C5_MaxSpeedIsRunningMax ==
    [][IsSome(ac') =>
          /\ Unwrap(ac').max_speed = SetMax(observed')
          /\ Unwrap(ac').max_speed >= Unwrap(ac').cur_speed
          /\ IsSome(ac) => Unwrap(ac').max_speed >= Track.max_speed]_vars

C5_Witness ==
    /\ IsSome(ac)
    /\ last.op = "update"
    /\ Cardinality(observed) = 3
    /\ Track.max_speed > Track.cur_speed

\* C6: an update adds exactly 1 to fast_count when its snapshot carries a
\* ground speed strictly above 350 kt, and leaves fast_count as it was when
\* the speed is absent or at most 350 kt.
C6_FastCountStep ==
    [][(IsSome(ac) /\ last'.op = "update") =>
          LET spd == last'.aircraft.ground_speed_knots
          IN  Unwrap(ac').fast_count =
                  IF IsSome(spd) /\ Unwrap(spd) > Kts(350)
                  THEN Track.fast_count + 1
                  ELSE Track.fast_count]_vars

C6_Witness ==
    /\ IsSome(ac)
    /\ last.op = "update"
    /\ last.aircraft.ground_speed_knots = Some(Kts(350) + 1)
    /\ Track.fast_count = 2

\* C7: for every track state and query time, is_fast_mover(now) is true
\* exactly when time_seen_fast is present, less than 3 minutes have elapsed
\* since it, fast_count > 10 and the track is not on the ground.
C7_FastMoverRule ==
    IsSome(ac) =>
        \A now \in QueryTimes :
            is_fast_mover(Track, now)
                <=> /\ IsSome(Track.time_seen_fast)
                    /\ now - Unwrap(Track.time_seen_fast) < 3 * 60
                    /\ Track.fast_count > 10
                    /\ ~Track.is_on_ground

C7_Witness ==
    /\ IsSome(ac)
    /\ Track.fast_count = 11
    /\ ~Track.is_on_ground
    /\ is_fast_mover(Track, Unwrap(Track.time_seen_fast) + 179)
    /\ ~is_fast_mover(Track, Unwrap(Track.time_seen_fast) + 181)

\* C8: after a creation or an update from a snapshot, is_on_ground is true
\* exactly when the snapshot's barometric reading is the on-ground marker or
\* its geometric altitude is present and strictly below 500 ft.
C8_GroundStatus ==
    IsSome(ac) =>
        LET baro == last.aircraft.barometric_altitude
            geom == last.aircraft.geometric_altitude
        IN  Track.is_on_ground <=>
                \/ baro = Some(OnGround)
                \/ IsSome(geom) /\ Unwrap(geom) < 500

C8_Witness ==
    /\ IsSome(ac)
    /\ last.op = "update"
    /\ last.aircraft.barometric_altitude = None
    /\ last.aircraft.geometric_altitude = Some(499)
    /\ Track.is_on_ground

\* C9: is_potential_toi() is true exactly when cur_speed is strictly between
\* 80 kt and 250 kt and the track is not on the ground, whatever the other
\* fields of the track hold.
C9_TargetBand ==
    IsSome(ac) =>
        \A fc \in 0..(FastCountLatch + 1), tsf \in {None, Some(clock)} :
            is_potential_toi([Track EXCEPT !.fast_count = fc, !.time_seen_fast = tsf])
                <=> /\ Track.cur_speed > Kts(80)
                    /\ Track.cur_speed < Kts(250)
                    /\ ~Track.is_on_ground

C9_Witness ==
    /\ IsSome(ac)
    /\ Track.cur_speed = Kts(80) + 1
    /\ ~Track.is_on_ground
    /\ is_potential_toi(Track)

\* C10: Ac::new fails with the MissingData error, naming the aircraft and a
\* field that is missing, and yields no track, whenever position, ground
\* speed, geometric altitude or seen_pos is absent; otherwise it succeeds.
C10_CreationRejects ==
    last.op = "new" =>
        LET a == last.aircraft
            absent == {m \in {"position data", "ground speed data",
                              "geometric altitude", "seen_pos"} :
                          \/ m = "position data" /\ (a.lon = None \/ a.lat = None)
                          \/ m = "ground speed data" /\ a.ground_speed_knots = None
                          \/ m = "geometric altitude" /\ a.geometric_altitude = None
                          \/ m = "seen_pos" /\ a.seen_pos = None}
            r == Unwrap(result)
        IN  /\ IsSome(result)
            /\ absent # {} =>
                  /\ ~r.ok
                  /\ r.err.kind = "AircraftMissingData"
                  /\ r.err.hex = a.hex
                  /\ r.err.missing \in absent
                  /\ ac = None
            /\ absent = {} =>
                  /\ r.ok
                  /\ ac = Some(r.val)
                  /\ r.val.hex = a.hex

C10_Witness ==
    /\ last.op = "new"
    /\ IsSome(last.aircraft.lon) /\ IsSome(last.aircraft.lat)
    /\ last.aircraft.ground_speed_knots = None
    /\ IsSome(result)
    /\ ~Unwrap(result).ok
    /\ ac = None


\* C11 as stated: after a successful creation at observation time now,
\* coords is the single entry (now - seen_pos, [lon, lat]).
C11_CreationEntryAdjusted ==
    (last.op = "new" /\ IsSome(ac)) =>
        Track.coords =
            << <<last.now - Unwrap(last.aircraft.seen_pos),
                 <<Unwrap(last.aircraft.lon), Unwrap(last.aircraft.lat)>> >> >>

\* C12 as stated: after a successful creation at observation time now, seen
\* is now minus the snapshot's elapsed-since-last-contact duration (seen);
\* after an update, seen is now.
C12_SeenFromLastContact ==
    IsSome(ac) =>
        Track.seen = IF last.op = "new" THEN last.now - last.aircraft.seen
                     ELSE last.now

\* C15 as stated: an update called with a snapshot that lacks longitude or
\* latitude changes no field of the track.
C15_FailedUpdateChangesNothing ==
    [][(IsSome(ac) /\ last'.op = "update"
            /\ (last'.aircraft.lon = None \/ last'.aircraft.lat = None))
          => ac' = ac]_vars

\* C17 as stated: in every track state, if is_on_ground is true then
\* cur_alt is 0.
C17_GroundMeansZeroAlt ==
    IsSome(ac) => (Track.is_on_ground => Track.cur_alt = 0)

\* C17 as amended: in every track state, if is_on_ground is true then
\* cur_alt is 0 when the latest snapshot carried no geometric altitude, and
\* is that geometric altitude (which need not be 0) when it carried one.
C17_GroundAltIsGeometricOrZero ==
    (IsSome(ac) /\ Track.is_on_ground) =>
        LET geom == last.aircraft.geometric_altitude
        IN  Track.cur_alt = IF IsSome(geom) THEN Unwrap(geom) ELSE 0

C17_Witness ==
    /\ IsSome(ac)
    /\ last.op = "update"
    /\ Track.is_on_ground
    /\ last.aircraft.geometric_altitude = None
    /\ last.aircraft.barometric_altitude = Some(OnGround)
    /\ Track.cur_alt = 0

\* C18: after every update, cur_alt is the snapshot's geometric altitude if
\* present, else the number of its barometric altitude if present (0 for the
\* on-ground marker), else 0, whatever cur_alt was before.
C18_AltRecomputed ==
    (IsSome(ac) /\ last.op = "update") =>
        LET geom == last.aircraft.geometric_altitude
            baro == last.aircraft.barometric_altitude
        IN  Track.cur_alt =
                IF geom # None THEN Unwrap(geom)
                ELSE IF baro = None THEN 0
                ELSE IF Unwrap(baro).tag = "OnGround" THEN 0
                ELSE Unwrap(baro).alt

C18_Witness ==
    /\ IsSome(ac)
    /\ last.op = "update"
    /\ last.aircraft.geometric_altitude = None
    /\ last.aircraft.barometric_altitude = Some(Altitude(600))
    /\ Track.cur_alt = 600
    /\ Unwrap(result).val.cur_alt = 10000

\* C19 as stated: fast_count is the length of the current unbroken run of
\* observations faster than 350 kt, so an observation at or below 350 kt
\* brings it back to 0.
C19_FastCountIsRunLength ==
    IsSome(ac) => Track.fast_count = fast_run

\* C20: for a track left as it is, once is_fast_mover is false at a query
\* time it is false at every later query time: second by second over the
\* whole range of query times, and one update interval later.
C20_LapsedStaysLapsed ==
    IsSome(ac) =>
        \A t1 \in (clock - 241)..(clock + 241) :
            ~is_fast_mover(Track, t1) =>
                ~is_fast_mover(Track, t1 + 1) /\ ~is_fast_mover(Track, t1 + StepSecs)

C20_Witness ==
    /\ IsSome(ac)
    /\ Track.fast_count > 10
    /\ clock = Unwrap(Track.time_seen_fast) + StepSecs
    /\ is_fast_mover(Track, clock)
    /\ ~is_fast_mover(Track, clock + 2 * 60)
    /\ ~is_fast_mover(Track, clock + 4 * 60)

----------------------------------------------------------------------------
(* for_each_adsbx_json *)

\* the indices up to n whose decode succeeds, in input order
Successful(n) == SelectSeq([i \in 1..n |-> i], LAMBDA i : decodes[i])

\* the number of results the for_each closure has been entered with
Consumed == IF pc = "op" THEN next_out ELSE next_out - 1

\* C13 as stated: whenever the call ends, the callback has been given exactly the
\* successfully decoded sources, in input order, each once
C13_DeliveredAllSuccessful ==
    pc \in {"done", "exited"} => delivered = Successful(NumPaths)

\* C13 as the code has it: for every interleaving of the workers at most one
\* callback runs at a time, the sources given to the callback are at every moment
\* exactly the successfully decoded ones among the results consumed so far, in
\* input order and each once, and they are all the successfully decoded sources
\* when the call returns
C13_SerialInOrder ==
    /\ Cardinality(in_op) <= 1
    /\ delivered = Successful(Consumed)
    /\ pc = "done" => delivered = Successful(NumPaths)

\* a later source is decoded while an earlier one is still on a worker and the
\* callback is running on the first
C13_Witness ==
    /\ pc = "op"
    /\ in_op = {1}
    /\ delivered = <<1>>
    /\ 2 \in working
    /\ 3 \in ready

\* C14: without skip_json_errors the callback is never given a source that comes
\* after a failing one and the call never returns once a source has failed; with
\* skip_json_errors the process never exits and, when the call returns, every
\* successfully decoded source has been given to the callback
C14_AbortOrSkip ==
    /\ ~skip_json_errors =>
          /\ \A k \in 1..Len(delivered) : \A j \in 1..delivered[k] : decodes[j]
          /\ (\E j \in PathIndices : ~decodes[j]) => pc # "done"
    /\ skip_json_errors =>
          /\ pc # "exited"
          /\ pc = "done" => delivered = Successful(NumPaths)
          /\ pc = "done" => \A j \in PathIndices : decodes[j] => \E k \in 1..Len(delivered) : delivered[k] = j

\* a run with skip_json_errors returns after delivering the sources before and
\* after a failing one
C14_Witness ==
    /\ skip_json_errors
    /\ pc = "done"
    /\ decodes[1] /\ ~decodes[2] /\ decodes[3]
    /\ Len(delivered) >= 2
    /\ delivered[1] = 1 /\ delivered[2] = 3

\* a run without skip_json_errors has exited at a failing source with a good one behind it
C14_AbortWitness ==
    /\ ~skip_json_errors
    /\ pc = "exited"
    /\ decodes[1] /\ ~decodes[2] /\ decodes[3]
    /\ delivered = <<1>>

----------------------------------------------------------------------------
(* Matching *)

\* the records of the latest tick that pair interceptor i with target t
RecordsOf(i, t) ==
    {k \in 1..Len(emitted) : emitted[k].interceptor.hex = i /\ emitted[k].target.hex = t}

\* the fast-mover rule at the time of the tick, on the fields
TickFast(self) ==
    /\ self.time_seen_fast # None
    /\ (tick_now - Unwrap(self.time_seen_fast)) \div 60 < 3
    /\ self.fast_count > 10
    /\ ~self.is_on_ground

\* the target band, on the fields
TickToi(self) ==
    /\ self.cur_speed > Kts(80)
    /\ self.cur_speed < Kts(250)
    /\ ~self.is_on_ground

\* the latest position of a track
LastPosition(self) == self.coords[Len(self.coords)][2]

C16_TwoTargetsWitness ==
    /\ Len(emitted) = 2
    /\ emitted[1].interceptor.hex = emitted[2].interceptor.hex
    /\ emitted[1].target.hex # emitted[2].target.hex

====
